---- MODULE Spec2Model ----
(***************************************************************************)
(* State-machine model of ProjectExtentsEditingExample                     *)
(* (test-apps/display-test-app/src/frontend/ProjectExtentsEditingExample.ts)*)
(*                                                                         *)
(* The panel's five button handlers are async functions.  Each action of   *)
(* this module is one synchronous run of handler code: from the button     *)
(* press to the first await that suspends, or from the completion of an    *)
(* awaited external call to the next await or the handler's end.  Handler  *)
(* invocations suspended at an await are kept in the bag `inflight`.       *)
(* Rejections of the awaited external calls are not handled by the panel   *)
(* and are not modelled.                                                   *)
(***************************************************************************)
EXTENDS Integers, Sequences, FiniteSets, Bags, TLC

\* ---------------------------------------------------------------- bounds
\* Largest number of handler invocations suspended at the same time.
MaxHandlers == 2
\* Largest number of moveSample invocations that pass the precondition check.
MaxMoves == 2
\* The extent lengths of SpecOffset reach MaxLenSteps * (DefaultMagnitude / 2) + 1.
MaxLenSteps == 2

\* ------------------------------------------------------ program constants
\* defaultOffset = Vector3d.create(50_000, 0, 0)
DefaultMagnitude == 50000
\* "... WHERE Model.Id=? LIMIT 50"
QueryLimit == 50

\* ------------------------------------------------------------- fixtures
\* The models a view can list and the geometric elements of each.
Models == {"m1", "m2"}
ModelElements(m) == IF m = "m1" THEN {"e1", "e2"} ELSE {}
Elements == UNION {ModelElements(m) : m \in Models}
\* The model lists a view can have (forEachModel order).
ViewChoices == {<<>>, <<"m1", "m2">>}

\* --------------------------------------------------------------- vectors
ZeroVec == <<0, 0, 0>>
\* `undefined` for _lastOffset
None == <<>>
Abs(i) == IF i < 0 THEN -i ELSE i
Max2(a, b) == IF a >= b THEN a ELSE b
Max3(a, b, c) == Max2(a, Max2(b, c))
\* Vector3d.negate
Negate(v) == <<-v[1], -v[2], -v[3]>>
Plus(a, b) == <<a[1] + b[1], a[2] + b[2], a[3] + b[3]>>
Scale(k, v) == <<k * v[1], k * v[2], k * v[3]>>
\* Vector3d.magnitude; every vector of the panel lies on one axis, where the
\* root of the sum of squares is the absolute value of the one component.
Magnitude(v) ==
    IF v[2] = 0 /\ v[3] = 0 THEN Abs(v[1])
    ELSE IF v[1] = 0 /\ v[3] = 0 THEN Abs(v[2])
    ELSE IF v[1] = 0 /\ v[2] = 0 THEN Abs(v[3])
    ELSE CHOOSE r \in 0..(Abs(v[1]) + Abs(v[2]) + Abs(v[3])) :
            /\ r * r <= v[1] * v[1] + v[2] * v[2] + v[3] * v[3]
            /\ (r + 1) * (r + 1) > v[1] * v[1] + v[2] * v[2] + v[3] * v[3]

defaultOffset == <<DefaultMagnitude, 0, 0>>

\* A Range3d is modelled by what the panel reads of it: its three lengths.
Extents(x, y, z) == [xLength |-> x, yLength |-> y, zLength |-> z]
LargestLength(extents) == Max3(extents.xLength, extents.yLength, extents.zLength)

\* Faulty variant of getRangeBasedOffset: the scale is not clamped to the default magnitude.
getRangeBasedOffsetUnclamped(extents) ==
    LET length == LargestLength(extents)
    IN  IF length <= 0 THEN defaultOffset ELSE <<length * 2, 0, 0>>

getRangeBasedOffset(extents) ==
    LET length == LargestLength(extents)
    IN  IF length <= 0
        THEN defaultOffset
        ELSE LET scale == Max2(length * 2, Magnitude(defaultOffset))
             IN  <<scale, 0, 0>>

\* -------------------------------------------------------- status messages
MsgInitial == "Select a model to exercise tile requests against project extents."
MsgNeedBriefcase == "Editing scope requires a writable briefcase."
MsgScopeActive == "Editing scope is active."
MsgScopeEnded == "Editing scope ended."
MsgSelectWritable == "Select a model and ensure the iModel is writable."
MsgNoElements == "No geometric elements were found in the selected model."
MsgMovedOutside == "Moved sample geometry beyond the project extents while editing."
MsgMovedBack == "Moved sample geometry back within the project extents without saving."
MsgSaved == "Saved the briefcase and refreshed tiles. Geometry outside project extents will stop requesting tiles."
MsgSelectModel == "Select a model before requesting tiles."
MsgRequested == "Requested tiles for the modified model without saving."
SaveDescription == "Project extents tile example"

VARIABLES
    writable,        \* _vp.iModel.isBriefcaseConnection()
    editingScope,    \* imodel.editingScope is defined
    projectExtents,  \* imodel.projectExtents
    options,         \* the option values of _modelSelect, in order
    selected,        \* _modelSelect.value ("" when nothing is selected)
    status,          \* _status.innerText
    lastOffset,      \* _lastOffset (None when undefined)
    inflight,        \* bag of handler invocations suspended at an await
    overlapped,      \* another handler ran since the oldest one in flight started
    position,        \* displacement of each element from where it started
    nOutside,        \* completed moveSample(true) calls that transformed
    nBack,           \* completed moveSample(false) calls that transformed
    events           \* what the latest step did: external calls and status writes

vars == <<writable, editingScope, projectExtents, options, selected, status,
          lastOffset, inflight, overlapped, position, nOutside, nBack, events>>

\* ------------------------------------------------------ handler records
KToggle == "toggleEditingScope"
KMove == "moveSample"
KSave == "saveAndRefresh"
KTiles == "requestTiles"

\* A handler invocation: its kind, the await it is suspended at ("start"
\* before the first one) and its local constants.
NewHandler(kind, outside, modelId) ==
    [kind |-> kind, pc |-> "start", outside |-> outside, modelId |-> modelId,
     ids |-> {}, translation |-> ZeroVec]

\* One observable effect of a step: handler h called op with arg.
Ev(h, op, arg) == [h |-> h, op |-> op, arg |-> arg]
SetStatus(h, msg) == Ev(h, "setStatus", <<msg>>)

Ops(evs) == {evs[i].op : i \in 1..Len(evs)}
CountOp(evs, op) == Cardinality({i \in 1..Len(evs) : evs[i].op = op})

Suspended == BagToSet(inflight)
Suspend(h) == inflight (+) SetToBag({h})
Retire(h) == inflight (-) SetToBag({h})
Resume(h, h2) == (inflight (-) SetToBag({h})) (+) SetToBag({h2})
InFlightMoves ==
    LET ms == {h \in Suspended : h.kind = KMove}
    IN  BagCardinality([h \in ms |-> inflight[h]])

Range(s) == {s[i] : i \in 1..Len(s)}


\* ------------------------------------------------- external collaborators
\* BriefcaseConnection.enterEditingScope: once the call completes the
\* connection has an editing scope.
enterEditingScope(scope) == TRUE
\* GraphicalEditingScope.exit: once the call completes the connection has none.
exitEditingScope(scope) == FALSE
\* transformElements (EditingTools): translates the listed elements.
transformElements(pos, ids, translation) ==
    [e \in Elements |-> IF e \in ids THEN Plus(pos[e], translation) ELSE pos[e]]
\* The rows of "SELECT ECInstanceId FROM bis.GeometricElement3d WHERE
\* Model.Id=? LIMIT 50".
QueryRows(modelId) ==
    IF Cardinality(ModelElements(modelId)) <= QueryLimit
    THEN ModelElements(modelId)
    ELSE CHOOSE rows \in SUBSET ModelElements(modelId) : Cardinality(rows) = QueryLimit

\* ----------------------------------------------------------- panel helpers
\* Every id the query yields is a string, so every row is kept.
getSampleElementIds(modelId) == QueryRows(modelId)

\* Faulty variant of getBriefcase: the connection is used whether or not it is a briefcase.
getBriefcaseUnchecked == TRUE

\* getBriefcase() returns a connection (TRUE) or undefined (FALSE).
getBriefcase == writable

selectedModelId == selected

\* getOffset(imodel)
getOffset == getRangeBasedOffset(projectExtents)

\* Faulty variant of CachedOffset: the offset is recomputed on every move.
CachedOffsetRecomputed(cached, computed) == computed

\* this._lastOffset ?? this.getOffset(imodel)
CachedOffset(cached, computed) == IF cached # None THEN cached ELSE computed

\* Faulty variant of Translation: "move back" is not negated.
TranslationNotNegated(outside, offset) == offset

\* outside ? offset : offset.negate()
Translation(outside, offset) == IF outside THEN offset ELSE Negate(offset)

\* Faulty variant of NoSampleElements: the empty result is not detected.
NoSampleElementsIgnored(ids) == FALSE

\* 0 === ids.length
NoSampleElements(ids) == Cardinality(ids) = 0

\* Faulty variant of ToggleStatus: the two messages are swapped.
ToggleStatusSwapped(scope) == IF scope THEN MsgScopeEnded ELSE MsgScopeActive

\* imodel.editingScope ? "Editing scope is active." : "Editing scope ended."
ToggleStatus(scope) == IF scope THEN MsgScopeActive ELSE MsgScopeEnded

\* Faulty variant of RefreshModels: the selection is read again after the save.
RefreshModelsReread(h) == <<selected>>

\* refreshForModifiedModels([modelId]) with the handler's own modelId
RefreshModels(h) == <<h.modelId>>

\* Faulty variant of RequestTilesEffects: the request also saves the briefcase.
RequestTilesEffectsSaving(h) ==
    <<Ev(h, "saveChanges", <<SaveDescription>>),
      Ev(h, "refreshForModifiedModels", <<h.modelId>>),
      SetStatus(h, MsgRequested)>>

\* What requestTiles does once a model is selected.
RequestTilesEffects(h) ==
    <<Ev(h, "refreshForModifiedModels", <<h.modelId>>),
      SetStatus(h, MsgRequested)>>

\* Faulty variant of ButtonEnabled: a button is dead while a handler is in flight.
ButtonEnabledExclusive == inflight = EmptyBag

\* createButton installs each handler unconditionally: no button is ever
\* disabled, whatever is in flight.
ButtonEnabled == TRUE

\* The step's effects: `events` lists them and status holds the last
\* message written (if any).
LastStatus(evs, old) ==
    LET written == {i \in 1..Len(evs) : evs[i].op = "setStatus"}
    IN  IF written = {} THEN old
        ELSE evs[CHOOSE i \in written : \A j \in written : j <= i].arg[1]

Effects(evs) ==
    /\ events' = evs
    /\ status' = LastStatus(evs, status)

\* A handler starts: it overlaps whatever is in flight.
Pressed ==
    /\ ButtonEnabled
    /\ overlapped' = (inflight # EmptyBag)

\* --------------------------------------------------------------- UI steps
\* populateModels with the view's models being `viewModels`.  Rebuilding the
\* options selects the first one; assigning a value no option has leaves
\* nothing selected.
populateModels(viewModels) ==
    LET current == selected
    IN  /\ options' = viewModels
        /\ selected' = IF current # ""
                       THEN (IF current \in Range(viewModels) THEN current ELSE "")
                       ELSE (IF viewModels = <<>> THEN "" ELSE viewModels[1])

onViewChanged ==
    \E viewModels \in ViewChoices :
        /\ populateModels(viewModels)
        /\ events' = <<>>
        /\ UNCHANGED <<writable, editingScope, projectExtents, status, lastOffset,
                       inflight, overlapped, position, nOutside, nBack>>

\* The user picks an option of the model list.
SelectModel ==
    \E m \in Range(options) :
        /\ m # selected
        /\ selected' = m
        /\ events' = <<>>
        /\ UNCHANGED <<writable, editingScope, projectExtents, options, status,
                       lastOffset, inflight, overlapped, position, nOutside, nBack>>

\* The extents the panel may find on the connection.
PanelExtents == {Extents(0, 0, 0), Extents(DefaultMagnitude, 1, 0)}

\* The connection's project extents change (outside the panel).
ChangeProjectExtents ==
    \E ext \in PanelExtents :
        /\ ext # projectExtents
        /\ projectExtents' = ext
        /\ events' = <<>>
        /\ UNCHANGED <<writable, editingScope, options, selected, status, lastOffset,
                       inflight, overlapped, position, nOutside, nBack>>

\* --------------------------------------------------- toggleEditingScope
toggleEditingScope ==
    LET h == NewHandler(KToggle, FALSE, "")
    IN  /\ Pressed
        /\ IF ~getBriefcase
           THEN /\ Effects(<<SetStatus(h, MsgNeedBriefcase)>>)
                /\ UNCHANGED inflight
           ELSE /\ BagCardinality(inflight) < MaxHandlers
                /\ IF editingScope
                   THEN /\ inflight' = Suspend([h EXCEPT !.pc = "exit"])
                        /\ Effects(<<Ev(h, "editingScope.exit", <<>>)>>)
                   ELSE /\ inflight' = Suspend([h EXCEPT !.pc = "enter"])
                        /\ Effects(<<Ev(h, "enterEditingScope", <<>>)>>)
        /\ UNCHANGED <<writable, editingScope, projectExtents, options, selected,
                       lastOffset, position, nOutside, nBack>>

\* The awaited exit or enter completes and the handler reports.
toggleEditingScopeResume ==
    \E h \in Suspended :
        /\ h.kind = KToggle
        /\ editingScope' = IF h.pc = "exit"
                           THEN exitEditingScope(editingScope)
                           ELSE enterEditingScope(editingScope)
        /\ Effects(<<SetStatus(h, ToggleStatus(editingScope'))>>)
        /\ inflight' = Retire(h)
        /\ UNCHANGED <<writable, projectExtents, options, selected, lastOffset,
                       overlapped, position, nOutside, nBack>>

\* ------------------------------------------------------------ moveSample
moveSample ==
    \E outside \in BOOLEAN :
        LET h == NewHandler(KMove, outside, selectedModelId)
        IN  /\ Pressed
            /\ IF ~getBriefcase \/ h.modelId = ""
               THEN /\ Effects(<<SetStatus(h, MsgSelectWritable)>>)
                    /\ UNCHANGED inflight
               ELSE /\ BagCardinality(inflight) < MaxHandlers
                    /\ nOutside + nBack + InFlightMoves < MaxMoves
                    /\ IF ~editingScope
                       THEN /\ inflight' = Suspend([h EXCEPT !.pc = "enter"])
                            /\ Effects(<<Ev(h, "enterEditingScope", <<>>)>>)
                       ELSE /\ inflight' = Suspend([h EXCEPT !.pc = "query"])
                            /\ Effects(<<Ev(h, "createQueryReader", <<h.modelId>>)>>)
            /\ UNCHANGED <<writable, editingScope, projectExtents, options, selected,
                           lastOffset, position, nOutside, nBack>>

\* The implicit enterEditingScope completes; the query is issued.
moveSampleEntered ==
    \E h \in Suspended :
        /\ h.kind = KMove
        /\ h.pc = "enter"
        /\ editingScope' = enterEditingScope(editingScope)
        /\ inflight' = Resume(h, [h EXCEPT !.pc = "query"])
        /\ Effects(<<Ev(h, "createQueryReader", <<h.modelId>>)>>)
        /\ UNCHANGED <<writable, projectExtents, options, selected, lastOffset,
                       overlapped, position, nOutside, nBack>>

\* The query completes: report an empty result, or cache the offset and
\* call transformElements.
moveSampleQueried ==
    \E h \in Suspended :
        /\ h.kind = KMove
        /\ h.pc = "query"
        /\ LET ids == getSampleElementIds(h.modelId)
               offset == CachedOffset(lastOffset, getOffset)
               translation == Translation(h.outside, offset)
           IN  IF NoSampleElements(ids)
               THEN /\ Effects(<<SetStatus(h, MsgNoElements)>>)
                    /\ inflight' = Retire(h)
                    /\ UNCHANGED lastOffset
               ELSE /\ lastOffset' = offset
                    /\ inflight' = Resume(h, [h EXCEPT !.pc = "transform", !.ids = ids,
                                                       !.translation = translation])
                    /\ Effects(<<Ev(h, "transformElements", <<ids, translation>>)>>)
        /\ UNCHANGED <<writable, editingScope, projectExtents, options, selected,
                       overlapped, position, nOutside, nBack>>

\* transformElements completes and the handler reports.
moveSampleTransformed ==
    \E h \in Suspended :
        /\ h.kind = KMove
        /\ h.pc = "transform"
        /\ position' = transformElements(position, h.ids, h.translation)
        /\ nOutside' = IF h.outside THEN nOutside + 1 ELSE nOutside
        /\ nBack' = IF h.outside THEN nBack ELSE nBack + 1
        /\ Effects(<<SetStatus(h, IF h.outside THEN MsgMovedOutside ELSE MsgMovedBack)>>)
        /\ inflight' = Retire(h)
        /\ UNCHANGED <<writable, editingScope, projectExtents, options, selected,
                       lastOffset, overlapped>>

\* -------------------------------------------------------- saveAndRefresh
saveAndRefresh ==
    LET h == NewHandler(KSave, FALSE, selectedModelId)
    IN  /\ Pressed
        /\ IF ~getBriefcase \/ h.modelId = ""
           THEN /\ Effects(<<SetStatus(h, MsgSelectWritable)>>)
                /\ UNCHANGED inflight
           ELSE /\ BagCardinality(inflight) < MaxHandlers
                /\ inflight' = Suspend([h EXCEPT !.pc = "save"])
                /\ Effects(<<Ev(h, "saveChanges", <<SaveDescription>>)>>)
        /\ UNCHANGED <<writable, editingScope, projectExtents, options, selected,
                       lastOffset, position, nOutside, nBack>>

\* saveChanges completes: refresh the tiles, then report.
saveAndRefreshSaved ==
    \E h \in Suspended :
        /\ h.kind = KSave
        /\ Effects(<<Ev(h, "refreshForModifiedModels", RefreshModels(h)),
                     SetStatus(h, MsgSaved)>>)
        /\ inflight' = Retire(h)
        /\ UNCHANGED <<writable, editingScope, projectExtents, options, selected,
                       lastOffset, overlapped, position, nOutside, nBack>>

\* ---------------------------------------------------------- requestTiles
requestTiles ==
    LET h == NewHandler(KTiles, FALSE, selectedModelId)
    IN  /\ Pressed
        /\ IF h.modelId = ""
           THEN Effects(<<SetStatus(h, MsgSelectModel)>>)
           ELSE Effects(RequestTilesEffects(h))
        /\ UNCHANGED <<writable, editingScope, projectExtents, options, selected,
                       lastOffset, inflight, position, nOutside, nBack>>

\* ------------------------------------------------------- specification
\* The state after construction: populateModels has run on an empty select,
\* the initial status is shown and nothing is cached or in flight.
Init ==
    /\ writable \in BOOLEAN
    /\ editingScope = FALSE
    /\ projectExtents \in PanelExtents
    /\ options \in ViewChoices
    /\ selected = IF options = <<>> THEN "" ELSE options[1]
    /\ status = MsgInitial
    /\ lastOffset = None
    /\ inflight = EmptyBag
    /\ overlapped = FALSE
    /\ position = [e \in Elements |-> ZeroVec]
    /\ nOutside = 0
    /\ nBack = 0
    /\ events = <<>>

Next ==
    \/ onViewChanged
    \/ SelectModel
    \/ ChangeProjectExtents
    \/ toggleEditingScope
    \/ toggleEditingScopeResume
    \/ moveSample
    \/ moveSampleEntered
    \/ moveSampleQueried
    \/ moveSampleTransformed
    \/ saveAndRefresh
    \/ saveAndRefreshSaved
    \/ requestTiles

Spec == Init /\ [][Next]_vars


\* ------------------------------------------- getRangeBasedOffset in isolation
\* The lengths a project-extents range is given: non-positive ones, and
\* the ones around each multiple of half the default magnitude.
LenValues ==
    {-1, 0, 1} \cup
    {k * (DefaultMagnitude \div 2) + d : k \in 1..MaxLenSteps, d \in {-1, 0, 1}}

OffsetExtents == {Extents(x, y, z) : x \in LenValues, y \in LenValues, z \in LenValues}

InitOffset ==
    /\ writable = TRUE
    /\ editingScope = TRUE
    /\ projectExtents \in OffsetExtents
    /\ options = <<"m1", "m2">>
    /\ selected = "m1"
    /\ status = MsgInitial
    /\ lastOffset = None
    /\ inflight = EmptyBag
    /\ overlapped = FALSE
    /\ position = [e \in Elements |-> ZeroVec]
    /\ nOutside = 0
    /\ nBack = 0
    /\ events = <<>>

\* The first move's offset: nothing is cached, so getOffset computes it
\* from the connection's project extents and it is cached.
computeOffset ==
    /\ lastOffset = None
    /\ lastOffset' = CachedOffset(lastOffset, getOffset)
    /\ UNCHANGED <<writable, editingScope, projectExtents, options, selected, status,
                   inflight, overlapped, position, nOutside, nBack, events>>

NextOffset == computeOffset

SpecOffset == InitOffset /\ [][NextOffset]_vars

\* ================================================================ claims
EventsOf(kind) == {i \in 1..Len(events) : events[i].h.kind = kind}

\* C1 (as stated): with a connection that is not a writable briefcase, no
\* button action performs any external call; only status writes happen.
C1_NoExternalCallWhenReadOnly ==
    ~writable => \A i \in 1..Len(events) : events[i].op = "setStatus"

\* C1 (amended): with a connection that is not a writable briefcase,
\* toggleEditingScope, moveSample and saveAndRefresh only write the status;
\* requestTiles, which never looks at the connection, additionally calls
\* refreshForModifiedModels for the selected model.  Nothing is ever in
\* flight, and scope, offset cache and element positions keep their
\* initial values.
C1_OnlyRequestTilesActsWhenReadOnly ==
    ~writable =>
        /\ \A i \in 1..Len(events) :
              \/ events[i].op = "setStatus"
              \/ /\ events[i].h.kind = KTiles
                 /\ events[i].h.modelId # ""
                 /\ events[i].op = "refreshForModifiedModels"
                 /\ events[i].arg = <<events[i].h.modelId>>
        /\ inflight = EmptyBag
        /\ ~editingScope
        /\ lastOffset = None
        /\ position = [e \in Elements |-> ZeroVec]
        /\ nOutside = 0
        /\ nBack = 0

\* C1 witness: saveAndRefresh pressed with a model selected on a read-only
\* connection.
C1_Witness ==
    /\ ~writable
    /\ events # <<>>
    /\ events[1].h.kind = KSave
    /\ events[1].h.modelId # ""
    /\ status = MsgSelectWritable

\* C2 (as stated): the offset has magnitude exactly 2*L when the largest
\* length L is positive, and the fallback magnitude otherwise.
C2_MagnitudeIsTwiceLargest ==
    lastOffset # None =>
        LET L == LargestLength(projectExtents)
        IN  IF L > 0
            THEN Magnitude(lastOffset) = 2 * L
            ELSE Magnitude(lastOffset) = DefaultMagnitude

\* C2 (amended): the magnitude is 2*L only when 2*L reaches the fallback
\* magnitude; for a positive L with 2*L below it, and for L <= 0, it is the
\* fallback magnitude 50000.
C2_MagnitudeIsAtLeastFallback ==
    lastOffset # None =>
        LET L == LargestLength(projectExtents)
        IN  /\ lastOffset[2] = 0
            /\ lastOffset[3] = 0
            /\ lastOffset[1] > 0
            /\ (2 * L >= DefaultMagnitude) => Magnitude(lastOffset) = 2 * L
            /\ (2 * L < DefaultMagnitude) => Magnitude(lastOffset) = DefaultMagnitude

\* C2 witness: a positive largest length below half the fallback magnitude.
C2_Witness ==
    /\ lastOffset # None
    /\ LargestLength(projectExtents) > 0
    /\ 2 * LargestLength(projectExtents) < DefaultMagnitude
    /\ Magnitude(lastOffset) = DefaultMagnitude

\* C3: once _lastOffset is set it never changes, and every translation
\* handed to transformElements is the cached vector for "outside" and its
\* negation for "back".
C3_OffsetComputedOnce ==
    [][/\ lastOffset # None => lastOffset' = lastOffset
       /\ \A i \in 1..Len(events') :
             events'[i].op = "transformElements" =>
                 /\ lastOffset' # None
                 /\ events'[i].arg[2] = IF events'[i].h.outside
                                        THEN lastOffset'
                                        ELSE Negate(lastOffset')]_vars

\* C3 witness: a "move back" transforms by the negated cached offset after
\* the project extents have changed to ones that give another offset.
C3_Witness ==
    /\ lastOffset # None
    /\ getOffset # lastOffset
    /\ events # <<>>
    /\ events[1].op = "transformElements"
    /\ ~events[1].h.outside
    /\ events[1].arg[2] = Negate(lastOffset)

\* C4 (as stated): whenever moveSample calls transformElements, the
\* connection has an editing scope.
C4_ScopeActiveAtTransform ==
    \A i \in 1..Len(events) :
        events[i].op = "transformElements" => editingScope

\* C5: a toggleEditingScope on a writable connection calls exit when a scope
\* is active and enterEditingScope otherwise; run with no other handler
\* overlapping it, it ends with the scope flipped and a status that says so.
C5_ToggleFlipsAndReports ==
    \A i \in EventsOf(KToggle) :
        LET e == events[i]
        IN  writable =>
            /\ e.h.pc = "start" =>
                  e.op = IF editingScope THEN "editingScope.exit" ELSE "enterEditingScope"
            /\ (e.h.pc = "exit" /\ ~overlapped) =>
                  /\ ~editingScope
                  /\ events = <<SetStatus(e.h, MsgScopeEnded)>>
                  /\ status = MsgScopeEnded
            /\ (e.h.pc = "enter" /\ ~overlapped) =>
                  /\ editingScope
                  /\ events = <<SetStatus(e.h, MsgScopeActive)>>
                  /\ status = MsgScopeActive

\* C5 witness: a toggle that found a scope, ran alone and has just reported.
C5_Witness ==
    /\ writable
    /\ ~overlapped
    /\ events # <<>>
    /\ events[1].h.kind = KToggle
    /\ events[1].h.pc = "exit"
    /\ status = MsgScopeEnded
    /\ ~editingScope

\* C6: when the query of a moveSample returns no element, the step writes
\* the no-elements status and does nothing else: no transformElements, the
\* offset cache and the editing scope are left as they were.
C6_NoElementsNoTransform ==
    [][\A i \in 1..Len(events') :
          LET e == events'[i]
          IN  (e.h.kind = KMove /\ e.h.pc = "query" /\ QueryRows(e.h.modelId) = {}) =>
                  /\ events' = <<SetStatus(e.h, MsgNoElements)>>
                  /\ status' = MsgNoElements
                  /\ lastOffset' = lastOffset
                  /\ editingScope' = editingScope
                  /\ position' = position]_vars

\* C6 witness: a move on the empty model entered the scope itself, then
\* reported no elements with the scope still active and nothing cached.
C6_Witness ==
    /\ events = <<SetStatus([NewHandler(KMove, TRUE, "m2") EXCEPT !.pc = "query"],
                            MsgNoElements)>>
    /\ editingScope
    /\ lastOffset = None
    /\ inflight = EmptyBag
    /\ ~overlapped

\* C7: saveChanges is called by saveAndRefresh only, and exactly once by
\* each invocation that passes the precondition check, in the step of that
\* check: in every step the number of saveChanges calls is the number of
\* saveAndRefresh invocations that pass the check in it (one or none), so
\* over any run the two totals are equal.
PassedSaveCheck(evs) ==
    {i \in 1..Len(evs) : /\ i = 1
                         /\ evs[i].h.kind = KSave
                         /\ evs[i].h.pc = "start"
                         /\ writable
                         /\ evs[i].h.modelId # ""}

C7_OnlySaveAndRefreshSaves ==
    /\ CountOp(events, "saveChanges") = Cardinality(PassedSaveCheck(events))
    /\ \A i \in 1..Len(events) : events[i].op = "saveChanges" => events[i].h.kind = KSave

\* C7 witness: with a save pending and a move completed, requestTiles has
\* just refreshed the tiles and made no save call.
C7_Witness ==
    /\ \E h \in Suspended : h.kind = KSave
    /\ nOutside + nBack > 0
    /\ events # <<>>
    /\ events[1].h.kind = KTiles
    /\ events[1].op = "refreshForModifiedModels"
    /\ CountOp(events, "saveChanges") = 0

\* C8: saveAndRefresh calls saveChanges and nothing else when it starts
\* with a writable connection and a model, only writes the status when it
\* starts without; after the save has completed it requests the refresh
\* once, for the model it started with, and then writes the status.
C8_RefreshAfterSave ==
    \A i \in EventsOf(KSave) :
        LET h == events[i].h
        IN  /\ h.pc \in {"start", "save"}
            /\ (h.pc = "start" /\ writable /\ h.modelId # "") =>
                  events = <<Ev(h, "saveChanges", <<SaveDescription>>)>>
            /\ (h.pc = "start" /\ ~(writable /\ h.modelId # "")) =>
                  events = <<SetStatus(h, MsgSelectWritable)>>
            /\ h.pc = "save" =>
                  /\ h.modelId # ""
                  /\ events = <<Ev(h, "refreshForModifiedModels", <<h.modelId>>),
                                SetStatus(h, MsgSaved)>>
                  /\ status = MsgSaved

\* C8 witness: the refresh goes to the model the handler started with
\* although another one is selected by the time the save completes.
C8_Witness ==
    /\ events # <<>>
    /\ events[1].h.kind = KSave
    /\ events[1].op = "refreshForModifiedModels"
    /\ selected # ""
    /\ events[1].h.modelId # selected

\* C9: a handler in flight excludes no other: while there is room in the
\* model's bag and the connection is writable with no scope active (whatever
\* enterEditingScope calls are pending), a further toggleEditingScope can
\* start and calls enterEditingScope.
C9_NotMutuallyExclusive ==
    (writable /\ ~editingScope /\ BagCardinality(inflight) < MaxHandlers) =>
        ENABLED (toggleEditingScope /\ events'[1].op = "enterEditingScope")

\* C9 witness: two toggleEditingScope invocations are suspended at
\* enterEditingScope, neither call has completed.
C9_Witness ==
    /\ ~editingScope
    /\ \E h \in Suspended :
          /\ h.kind = KToggle
          /\ h.pc = "enter"
          /\ CopiesIn(h, inflight) = 2

\* C10: the displacement of every sample element is (completed outside
\* moves - completed back moves) times the cached offset, and it is zero
\* exactly when the two counts are equal.
C10_NetDisplacement ==
    \A e \in Elements :
        /\ lastOffset = None => (nOutside = 0 /\ nBack = 0 /\ position[e] = ZeroVec)
        /\ lastOffset # None => position[e] = Scale(nOutside - nBack, lastOffset)
        /\ position[e] = ZeroVec <=> nOutside = nBack

\* C10 witness: the first completed move is a "move back".
C10_Witness ==
    /\ nBack = 1
    /\ nOutside = 0
    /\ lastOffset # None
    /\ \A e \in Elements : position[e] = Negate(lastOffset)

====
